---- MODULE Spec2Model ----
(***************************************************************************)
(* Model of src/xsection/include/common.cuh (METROPOLIS_H part): the three *)
(* CUDA kernels RandStateInit, InitSampleArray and WarmupMetropolis, the   *)
(* device function MetropolisHastingsStep and the template recursions      *)
(* WarmupCopy / WarmupGibbs.                                               *)
(*                                                                         *)
(* Numbers.  A sample (float) is an integer count of half units: the model *)
(* value k stands for the float k/2, so 0.5 and -0.5 exist and the         *)
(* float -> int conversion of a kernel argument has something to truncate. *)
(* A density (float) is one of 0, 2^e, +inf, NaN, with IEEE-754 rules for  *)
(* product, reciprocal and >=; on powers of two these are exact.           *)
(*                                                                         *)
(* Lanes.  Every thread of a launch is a lane <<blockIdx.x, threadIdx.x>>; *)
(* each access of a lane to the global arrays prevSample / randState is    *)
(* one action, so all interleavings of loads and stores are explored.      *)
(***************************************************************************)
EXTENDS Integers, Sequences, FiniteSets

\* ---------------------------------------------------------------- bounds
MaxThreads == 2      \* launches of 1..MaxThreads lanes
MaxNucleons == 2     \* nNucleons in 1..MaxNucleons
MaxIter == 2         \* iterations of one launch, and of all launches together
MaxSlots == 4        \* floats allocated for prevSample: nNucleons * totalThreads fits

Seeds == {0, 1}               \* unsigned long long seed
InitValues == {-1, 0, 2}      \* caller's initial value: -0.5, 0.0, 1.0
StepSizes == {1, 2}           \* stepsize: 0.5, 1.0
PdfNames == {"PdfA", "PdfB"}  \* the density functions a caller may bind

VARIABLES
    cfg,         \* template arguments and launch geometry of this build
    build,       \* "pending" | "ok" | "rejected": instantiation of WarmupMetropolis
    kernel,      \* the kernel launched last ("none" before the first)
    args,        \* the arguments of that launch
    lane,        \* per lane of the launch: its registers and position
    prevSample,  \* global memory: float *prevSample
    randState,   \* global memory: curandStateXORWOW *randState
    seeded,      \* RandStateInit has completed
    filled,      \* InitSampleArray has completed
    acc,         \* history: accesses to global memory made by the current launch
    written,     \* history: prevSample slots ever written
    snap,        \* history: both arrays as the current warm-up launch found them
    base,        \* history: both arrays as the first warm-up launch found them
    total        \* history: iterations of all completed and current warm-up launches

vars == <<cfg, build, kernel, args, lane, prevSample, randState, seeded, filled,
          acc, written, snap, base, total>>

\* ------------------------------------------------------- float arithmetic
Zero == [t |-> "zero", e |-> 0]
Inf  == [t |-> "inf",  e |-> 0]
NaN  == [t |-> "nan",  e |-> 0]
Pow(e) == [t |-> "pow", e |-> e]     \* 2^e
One  == Pow(0)

\* a * b
FMul(a, b) ==
    IF a.t = "nan" \/ b.t = "nan" THEN NaN
    ELSE IF (a.t = "zero" /\ b.t = "inf") \/ (a.t = "inf" /\ b.t = "zero") THEN NaN
    ELSE IF a.t = "zero" \/ b.t = "zero" THEN Zero
    ELSE IF a.t = "inf" \/ b.t = "inf" THEN Inf
    ELSE Pow(a.e + b.e)

\* 1 / a
FInv(a) ==
    CASE a.t = "nan"  -> NaN
      [] a.t = "zero" -> Inf
      [] a.t = "inf"  -> Zero
      [] OTHER        -> Pow(0 - a.e)

\* a >= b (false when either is NaN)
FGeq(a, b) ==
    IF a.t = "nan" \/ b.t = "nan" THEN FALSE
    ELSE IF b.t = "zero" THEN TRUE
    ELSE IF a.t = "zero" THEN FALSE
    ELSE IF a.t = "inf" THEN TRUE
    ELSE IF b.t = "inf" THEN FALSE
    ELSE a.e >= b.e

\* a > b
FGt(a, b) == FGeq(a, b) /\ ~FGeq(b, a)

Abs(x) == IF x < 0 THEN 0 - x ELSE x

\* float -> int conversion of a kernel argument: truncation toward zero
FloatToInt(x) == IF x >= 0 THEN x \div 2 ELSE 0 - ((0 - x) \div 2)
\* int -> float conversion on the store
IntToFloat(i) == 2 * i

\* ------------------------------------------------------------ densities
\* PdfA(x) = 2^(-2|x|), positive everywhere; PdfB = indicator of [-0.5, 0.5]
Pdf(name, x) ==
    IF name = "PdfA" THEN Pow(0 - Abs(x))
    ELSE IF Abs(x) <= 1 THEN One ELSE Zero

\* ------------------------------------------------------------- generator
\* curand_init(seed, sequence, offset, &state)
curand_init(seed, sequence, offset) == [seed |-> seed, seq |-> sequence, pos |-> offset]
NoState == [seed |-> 0, seq |-> 0, pos |-> 0 - 1]

Advance(st) == [st EXCEPT !.pos = @ + 1]
Bits(st) == 2 * st.seed + 2 * st.seq + st.pos + 2 * st.pos * st.pos + st.seed * st.pos
\* curand_normal: the value drawn (an integer-valued float in -1..1)
curand_normal(st) == (Bits(st) % 3) - 1
\* curand_uniform: the value drawn, in (0, 1]: 1, 1/2 or 1/4
curand_uniform(st) == Pow(0 - ((Bits(st) \div 3) % 3))


\* ------------------------------------------------------ index arithmetic
\* threadIdx.x + blockIdx.x * blockDim.x
ThreadId(blockIdx, threadIdx, blockDim) == threadIdx + blockIdx * blockDim

\* Mutant: the lane stride forgotten.
SlotIndex_NoStride(totalThreads, n, threadId) == n + threadId

\* prevSample[totalThreads * n + threadId]
SlotIndex(totalThreads, n, threadId) == totalThreads * n + threadId

\* Mutant: every lane uses the first stream state.
RandSlot_Shared(threadId) == 0

\* randState[threadId]
RandSlot(threadId) == threadId

\* Mutant: sequence number and offset swapped.
RandStateInitValue_Swapped(seed, threadId) == curand_init(seed, 0, threadId)

\* curand_init(seed, threadId, 0, &(randState[threadId]))
RandStateInitValue(seed, threadId) == curand_init(seed, threadId, 0)

\* ------------------------------------------------- MetropolisHastingsStep
\* Mutant: strict comparison in the acceptance test.
MetropolisHastingsStep_Strict(pdf, prevSampleV, invPrevPDF, stepSize, rs) ==
    LET rs1        == Advance(rs)
        nextSample == prevSampleV + stepSize * curand_normal(rs)
        nextPDF    == Pdf(pdf, nextSample)
        rs2        == Advance(rs1)
    IN  IF FGt(FMul(nextPDF, invPrevPDF), curand_uniform(rs1))
        THEN [s |-> nextSample, inv |-> FInv(nextPDF), rs |-> rs2, accepted |-> TRUE]
        ELSE [s |-> prevSampleV, inv |-> invPrevPDF, rs |-> rs2, accepted |-> FALSE]

\* Mutant: the cache is not refreshed on acceptance.
MetropolisHastingsStep_StaleCache(pdf, prevSampleV, invPrevPDF, stepSize, rs) ==
    LET rs1        == Advance(rs)
        nextSample == prevSampleV + stepSize * curand_normal(rs)
        nextPDF    == Pdf(pdf, nextSample)
        rs2        == Advance(rs1)
    IN  IF FGeq(FMul(nextPDF, invPrevPDF), curand_uniform(rs1))
        THEN [s |-> nextSample, inv |-> invPrevPDF, rs |-> rs2, accepted |-> TRUE]
        ELSE [s |-> prevSampleV, inv |-> invPrevPDF, rs |-> rs2, accepted |-> FALSE]

\* The values left in *prevSample, *invPrevPDF and *randState, and the branch
\* taken (accepted).
MetropolisHastingsStep(pdf, prevSampleV, invPrevPDF, stepSize, rs) ==
    LET rs1        == Advance(rs)
        nextSample == prevSampleV + stepSize * curand_normal(rs)
        nextPDF    == Pdf(pdf, nextSample)
        rs2        == Advance(rs1)
    IN  IF FGeq(FMul(nextPDF, invPrevPDF), curand_uniform(rs1))
        THEN [s |-> nextSample, inv |-> FInv(nextPDF), rs |-> rs2, accepted |-> TRUE]
        ELSE [s |-> prevSampleV, inv |-> invPrevPDF, rs |-> rs2, accepted |-> FALSE]

\* Mutant: the cache starts at 1 whatever the sample loaded.
LoadInvPDF_One(pdf, x) == One

\* localInvPrevPDF[n] = 1 / pdf(localPrevSample[n])
LoadInvPDF(pdf, x) == FInv(Pdf(pdf, x))

\* if constexpr (sizeof...(pdfs) == 1)
Homogeneous(pdfs) == Len(pdfs) = 1

\* Mutant: no static_assert.
Instantiates_NoAssert(nNucleons, pdfs) == TRUE

\* Whether WarmupMetropolis<nNucleons, totalThreads, pdfs...> compiles:
\* static_assert(nNucleons == sizeof...(pdfs)) is in the else branch only.
\* (An empty pack with nNucleons = 0 has no WarmupCopy overload; nNucleons >= 1 here.)
Instantiates(nNucleons, pdfs) ==
    IF Homogeneous(pdfs) THEN TRUE ELSE nNucleons = Len(pdfs)

\* Mutant: one iteration too many.
LoopContinues_OffByOne(i, iterations) == i <= iterations

\* for (int i = 0; i < iterations; i++)
LoopContinues(i, iterations) == i < iterations

\* ------------------------------------------------------------ the launch
N == cfg.nNucleons
T == cfg.totalThreads
Lanes == (0 .. (cfg.gridDim - 1)) \X (0 .. (cfg.blockDim - 1))
Tid(l) == ThreadId(l[1], l[2], cfg.blockDim)

MemSlots == 0 .. (MaxSlots - 1)
RandSlots == 0 .. (MaxThreads - 1)

NoArgs == [seed |-> 0, initValue |-> 0, initSample |-> 0, iterations |-> 0]
NoStep == [valid |-> FALSE, n |-> 0, pdf |-> "PdfA", s |-> 0, inv |-> Zero,
           rs |-> NoState, accepted |-> FALSE]
Idle == [pc |-> "done", rs |-> NoState, ps |-> <<>>, inv |-> <<>>, i |-> 0, n |-> 0,
         rest |-> <<>>, log |-> <<>>, last |-> NoStep]

Completed == \A l \in Lanes : lane[l].pc = "done"

Access(l, arr, slot, kind) == [lane |-> l, arr |-> arr, slot |-> slot, kind |-> kind]

Configs ==
    { [nNucleons |-> n, totalThreads |-> g * b, gridDim |-> g, blockDim |-> b,
       pdfs |-> p, stepsize |-> s] :
        n \in 1 .. MaxNucleons, g \in 1 .. MaxThreads, b \in 1 .. MaxThreads,
        p \in UNION { [1 .. k -> PdfNames] : k \in 0 .. (MaxNucleons + 1) },
        s \in StepSizes }

Init ==
    /\ cfg \in { c \in Configs : /\ c.totalThreads <= MaxThreads
                                /\ c.nNucleons * c.totalThreads <= MaxSlots }
    /\ build = "pending"
    /\ kernel = "none"
    /\ args = NoArgs
    /\ lane = [l \in Lanes |-> Idle]
    /\ prevSample = [k \in MemSlots |-> 0]
    /\ randState = [k \in RandSlots |-> NoState]
    /\ seeded = FALSE
    /\ filled = FALSE
    /\ acc = {}
    /\ written = {}
    /\ snap = [sample |-> prevSample, rand |-> randState]
    /\ base = [sample |-> prevSample, rand |-> randState]
    /\ total = 0

\* The build instantiates WarmupMetropolis<nNucleons, totalThreads, pdfs...>.
Compile ==
    /\ build = "pending"
    /\ build' = IF Instantiates(N, cfg.pdfs) THEN "ok" ELSE "rejected"
    /\ UNCHANGED <<cfg, kernel, args, lane, prevSample, randState, seeded, filled,
                   acc, written, snap, base, total>>

Ready == build = "ok" /\ Completed

\* RandStateInit<<<gridDim, blockDim>>>(randState, seed)
LaunchRandStateInit(seed) ==
    /\ Ready /\ ~seeded
    /\ kernel' = "RandStateInit"
    /\ args' = [NoArgs EXCEPT !.seed = seed]
    /\ lane' = [l \in Lanes |-> [Idle EXCEPT !.pc = "run"]]
    /\ acc' = {}
    /\ seeded' = TRUE
    /\ UNCHANGED <<cfg, build, prevSample, randState, filled, written, snap, base, total>>

\* InitSampleArray<<<gridDim, blockDim>>>(prevSample, initSample, nNucleons, totalThreads)
\* The parameter initSample is an int: the caller's value is converted.
LaunchInitSampleArray(initValue) ==
    /\ Ready /\ ~filled
    /\ kernel' = "InitSampleArray"
    /\ args' = [NoArgs EXCEPT !.initValue = initValue, !.initSample = FloatToInt(initValue)]
    /\ lane' = [l \in Lanes |-> [Idle EXCEPT !.pc = "run"]]
    /\ acc' = {}
    /\ filled' = TRUE
    /\ UNCHANGED <<cfg, build, prevSample, randState, seeded, written, snap, base, total>>

\* WarmupMetropolis<nNucleons, totalThreads, pdfs...><<<gridDim, blockDim>>>(
\*     prevSample, stepsize, randState, iterations)
LaunchWarmupMetropolis(iterations) ==
    /\ Ready /\ seeded /\ filled
    /\ total + (IF iterations > 0 THEN iterations ELSE 0) <= MaxIter
    /\ kernel' = "WarmupMetropolis"
    /\ args' = [NoArgs EXCEPT !.iterations = iterations]
    /\ lane' = [l \in Lanes |-> [Idle EXCEPT !.pc = "loadRand",
                                               !.ps = [k \in 1 .. N |-> 0],
                                               !.inv = [k \in 1 .. N |-> Zero]]]
    /\ acc' = {}
    /\ snap' = [sample |-> prevSample, rand |-> randState]
    /\ base' = IF kernel = "WarmupMetropolis" THEN base
               ELSE [sample |-> prevSample, rand |-> randState]
    /\ total' = total + (IF iterations > 0 THEN iterations ELSE 0)
    /\ UNCHANGED <<cfg, build, prevSample, randState, seeded, filled, written>>

\* ------------------------------------------------------- RandStateInit
RandStateInit(l) ==
    /\ kernel = "RandStateInit" /\ lane[l].pc = "run"
    /\ randState' = [randState EXCEPT ![RandSlot(Tid(l))] = RandStateInitValue(args.seed, Tid(l))]
    /\ acc' = acc \cup {Access(l, "rand", RandSlot(Tid(l)), "w")}
    /\ lane' = [lane EXCEPT ![l].pc = "done"]
    /\ UNCHANGED <<cfg, build, kernel, args, prevSample, seeded, filled, written,
                   snap, base, total>>

\* ----------------------------------------------------- InitSampleArray
\* One pass of: for (n = 0; n < nNucleons; n++) prevSample[...] = initSample
InitSampleArray(l) ==
    /\ kernel = "InitSampleArray" /\ lane[l].pc = "run"
    /\ LET n == lane[l].n
           k == SlotIndex(T, n, Tid(l))
       IN  /\ prevSample' = [prevSample EXCEPT ![k] = IntToFloat(args.initSample)]
           /\ acc' = acc \cup {Access(l, "sample", k, "w")}
           /\ written' = written \cup {k}
           /\ lane' = [lane EXCEPT ![l].n = n + 1,
                                   ![l].pc = IF n + 1 < N THEN "run" ELSE "done"]
    /\ UNCHANGED <<cfg, build, kernel, args, randState, seeded, filled, snap, base, total>>


\* ---------------------------------------------------- WarmupMetropolis
InWarmup(l, pc) == kernel = "WarmupMetropolis" /\ lane[l].pc = pc

\* Where a lane goes when it reaches the head of the iteration loop.
LoopHead(i) == IF LoopContinues(i, args.iterations) THEN "step" ELSE "storeRand"

\* curandStateXORWOW localRandState = randState[threadId];
LoadRand(l) ==
    /\ InWarmup(l, "loadRand")
    /\ lane' = [lane EXCEPT ![l].rs = randState[RandSlot(Tid(l))],
                            ![l].pc = "copy", ![l].n = 0, ![l].rest = cfg.pdfs]
    /\ acc' = acc \cup {Access(l, "rand", RandSlot(Tid(l)), "r")}
    /\ UNCHANGED <<cfg, build, kernel, args, prevSample, randState, seeded, filled,
                   written, snap, base, total>>

\* The registers of lane l after copying dimension n with density pdf.
Copied(l, n, pdf) ==
    LET x == prevSample[SlotIndex(T, n, Tid(l))]
    IN  [lane[l] EXCEPT !.ps[n + 1] = x, !.inv[n + 1] = LoadInvPDF(pdf, x)]

\* Homogeneous branch, one pass of the copy loop (lines 217-221); pdf is
\* std::get<0> of the pack.
CopyHomogeneous(l) ==
    /\ InWarmup(l, "copy") /\ Homogeneous(cfg.pdfs)
    /\ LET n == lane[l].n
           more == n + 1 < N
       IN  /\ lane' = [lane EXCEPT ![l] =
                         [Copied(l, n, cfg.pdfs[1]) EXCEPT
                             !.n = IF more THEN n + 1 ELSE 0,
                             !.i = 0,
                             !.pc = IF more THEN "copy" ELSE LoopHead(0)]]
           /\ acc' = acc \cup {Access(l, "sample", SlotIndex(T, n, Tid(l)), "r")}
    /\ UNCHANGED <<cfg, build, kernel, args, prevSample, randState, seeded, filled,
                   written, snap, base, total>>

\* Heterogeneous branch, one level of WarmupCopy<totalThreads, n, pdf, pdfs...>:
\* the head of the remaining pack is used, the overload with an empty tail ends
\* the recursion.
WarmupCopy(l) ==
    /\ InWarmup(l, "copy") /\ ~Homogeneous(cfg.pdfs)
    /\ LET n == lane[l].n
           rest == lane[l].rest
           more == Len(rest) > 1
       IN  /\ lane' = [lane EXCEPT ![l] =
                         [Copied(l, n, Head(rest)) EXCEPT
                             !.n = IF more THEN n + 1 ELSE 0,
                             !.rest = IF more THEN Tail(rest) ELSE cfg.pdfs,
                             !.i = 0,
                             !.pc = IF more THEN "copy" ELSE LoopHead(0)]]
           /\ acc' = acc \cup {Access(l, "sample", SlotIndex(T, n, Tid(l)), "r")}
    /\ UNCHANGED <<cfg, build, kernel, args, prevSample, randState, seeded, filled,
                   written, snap, base, total>>

\* The registers of lane l after MetropolisHastingsStep<pdf> on dimension n.
Stepped(l, n, pdf) ==
    LET r == MetropolisHastingsStep(pdf, lane[l].ps[n + 1], lane[l].inv[n + 1],
                                    cfg.stepsize, lane[l].rs)
    IN  [lane[l] EXCEPT !.ps[n + 1] = r.s, !.inv[n + 1] = r.inv, !.rs = r.rs,
                        !.log = Append(@, n),
                        !.last = [valid |-> TRUE, n |-> n, pdf |-> pdf,
                                  s |-> lane[l].ps[n + 1], inv |-> lane[l].inv[n + 1],
                                  rs |-> lane[l].rs, accepted |-> r.accepted]]

\* Homogeneous branch, one pass of the inner loop (lines 231-234) and, after the
\* last dimension, the increment and test of the outer loop (line 224).
StepHomogeneous(l) ==
    /\ InWarmup(l, "step") /\ Homogeneous(cfg.pdfs)
    /\ LET n == lane[l].n
           i == lane[l].i
           more == n + 1 < N
       IN  lane' = [lane EXCEPT ![l] =
                      [Stepped(l, n, cfg.pdfs[1]) EXCEPT
                          !.n = IF more THEN n + 1 ELSE 0,
                          !.i = IF more THEN i ELSE i + 1,
                          !.pc = IF more THEN "step" ELSE LoopHead(i + 1)]]
    /\ UNCHANGED <<cfg, build, kernel, args, prevSample, randState, seeded, filled,
                   acc, written, snap, base, total>>

\* Heterogeneous branch, one level of WarmupGibbs<n, pdf, pdfs...> and, after the
\* overload with an empty tail, the increment and test of the loop at line 258.
WarmupGibbs(l) ==
    /\ InWarmup(l, "step") /\ ~Homogeneous(cfg.pdfs)
    /\ LET n == lane[l].n
           i == lane[l].i
           rest == lane[l].rest
           more == Len(rest) > 1
       IN  lane' = [lane EXCEPT ![l] =
                      [Stepped(l, n, Head(rest)) EXCEPT
                          !.n = IF more THEN n + 1 ELSE 0,
                          !.rest = IF more THEN Tail(rest) ELSE cfg.pdfs,
                          !.i = IF more THEN i ELSE i + 1,
                          !.pc = IF more THEN "step" ELSE LoopHead(i + 1)]]
    /\ UNCHANGED <<cfg, build, kernel, args, prevSample, randState, seeded, filled,
                   acc, written, snap, base, total>>

\* randState[threadId] = localRandState;
StoreRand(l) ==
    /\ InWarmup(l, "storeRand")
    /\ randState' = [randState EXCEPT ![RandSlot(Tid(l))] = lane[l].rs]
    /\ acc' = acc \cup {Access(l, "rand", RandSlot(Tid(l)), "w")}
    /\ lane' = [lane EXCEPT ![l].pc = "store", ![l].n = 0]
    /\ UNCHANGED <<cfg, build, kernel, args, prevSample, seeded, filled, written,
                   snap, base, total>>

\* One pass of the store loop: prevSample[totalThreads * n + threadId] = localPrevSample[n]
StoreSample(l) ==
    /\ InWarmup(l, "store")
    /\ LET n == lane[l].n
           k == SlotIndex(T, n, Tid(l))
       IN  /\ prevSample' = [prevSample EXCEPT ![k] = lane[l].ps[n + 1]]
           /\ acc' = acc \cup {Access(l, "sample", k, "w")}
           /\ written' = written \cup {k}
           /\ lane' = [lane EXCEPT ![l].n = n + 1,
                                   ![l].pc = IF n + 1 < N THEN "store" ELSE "done"]
    /\ UNCHANGED <<cfg, build, kernel, args, randState, seeded, filled, snap, base, total>>

\* ------------------------------------------------------ specification
Next ==
    \/ Compile
    \/ \E seed \in Seeds : LaunchRandStateInit(seed)
    \/ \E v \in InitValues : LaunchInitSampleArray(v)
    \/ \E it \in (0 - 1) .. MaxIter : LaunchWarmupMetropolis(it)
    \/ \E l \in Lanes : RandStateInit(l)
    \/ \E l \in Lanes : InitSampleArray(l)
    \/ \E l \in Lanes : LoadRand(l)
    \/ \E l \in Lanes : CopyHomogeneous(l)
    \/ \E l \in Lanes : WarmupCopy(l)
    \/ \E l \in Lanes : StepHomogeneous(l)
    \/ \E l \in Lanes : WarmupGibbs(l)
    \/ \E l \in Lanes : StoreRand(l)
    \/ \E l \in Lanes : StoreSample(l)

Spec == Init /\ [][Next]_vars


\* ------------------------------------------- sequential reference of a lane
\* What one lane computes when it runs alone, from given arrays: the load, then
\* `steps` Metropolis-Hastings steps, the k-th on dimension k mod nNucleons.
PdfOf(n) == IF Homogeneous(cfg.pdfs) THEN cfg.pdfs[1] ELSE cfg.pdfs[n + 1]

RefLoad(arrays, tid) ==
    [rs  |-> arrays.rand[RandSlot(tid)],
     ps  |-> [k \in 1 .. N |-> arrays.sample[SlotIndex(T, k - 1, tid)]],
     inv |-> [k \in 1 .. N |->
                LoadInvPDF(PdfOf(k - 1), arrays.sample[SlotIndex(T, k - 1, tid)])]]

RefStep(loc, n) ==
    LET r == MetropolisHastingsStep(PdfOf(n), loc.ps[n + 1], loc.inv[n + 1],
                                    cfg.stepsize, loc.rs)
    IN  [rs |-> r.rs, ps |-> [loc.ps EXCEPT ![n + 1] = r.s],
         inv |-> [loc.inv EXCEPT ![n + 1] = r.inv]]

RECURSIVE RefRun(_, _, _)
RefRun(loc, k, steps) ==
    IF k >= steps THEN loc ELSE RefRun(RefStep(loc, k % N), k + 1, steps)

RefLane(arrays, tid, sweeps) == RefRun(RefLoad(arrays, tid), 0, sweeps * N)

Sweeps(iterations) == IF iterations > 0 THEN iterations ELSE 0

OwnSlots == { SlotIndex(T, n, t) : n \in 0 .. (N - 1), t \in 0 .. (T - 1) }

\* Both arrays are what `sweeps` sweeps of every lane, each run alone, leave
\* from `arrays`; everything else is as `arrays` had it.
ArraysAre(arrays, sweeps) ==
    /\ \A t \in 0 .. (T - 1) :
         LET r == RefLane(arrays, t, sweeps)
         IN  /\ randState[RandSlot(t)] = r.rs
             /\ \A n \in 0 .. (N - 1) : prevSample[SlotIndex(T, n, t)] = r.ps[n + 1]
    /\ \A k \in MemSlots \ OwnSlots : prevSample[k] = arrays.sample[k]
    /\ \A k \in RandSlots \ { RandSlot(t) : t \in 0 .. (T - 1) } :
         randState[k] = arrays.rand[k]

WarmupDone == kernel = "WarmupMetropolis" /\ Completed

\* ------------------------------------------------------------------ C1
\* C1: in InitSampleArray and WarmupMetropolis every lane touches only the
\* sample slots totalThreads * n + threadId (n < nNucleons) and the stream slot
\* threadId, and no slot of either array is written by one lane and read or
\* written by another.
C1_OwnSlotsOnly ==
    kernel \in {"InitSampleArray", "WarmupMetropolis"} =>
        /\ \A a \in acc :
             IF a.arr = "sample"
             THEN \E n \in 0 .. (N - 1) : a.slot = T * n + Tid(a.lane)
             ELSE a.slot = Tid(a.lane)
        /\ \A a, b \in acc :
             (a.lane # b.lane /\ a.arr = b.arr /\ a.slot = b.slot)
                 => (a.kind = "r" /\ b.kind = "r")

C1_Witness ==
    /\ WarmupDone /\ T >= 2 /\ N >= 2 /\ cfg.gridDim >= 2
    /\ \E a, b \in acc : a.lane # b.lane /\ a.arr = "sample" /\ a.kind = "w"
                         /\ b.arr = "sample" /\ b.kind = "w"

\* ------------------------------------------------------------------ C2
\* C2: whatever the interleaving of the lanes and their grouping into blocks, a
\* completed warm-up launch leaves in both arrays exactly what the sequential
\* reference computes for each lane from the arrays the launch found.
C2_Deterministic ==
    WarmupDone => ArraysAre(snap, Sweeps(args.iterations))

C2_Witness ==
    /\ WarmupDone /\ T >= 2 /\ args.iterations >= 2
    /\ \E l \in Lanes : lane[l].last.accepted /\ lane[l].ps # <<0, 0>>
    /\ prevSample # snap.sample

\* ------------------------------------------------------------------ C3
\* C3 (as claimed): after InitSampleArray has run for all lanes every
\* (dimension, lane) slot holds exactly the caller's initial value and no other
\* slot was written.
C3_Claim ==
    (kernel = "InitSampleArray" /\ Completed) =>
        /\ \A n \in 0 .. (N - 1), t \in 0 .. (T - 1) : prevSample[T * n + t] = args.initValue
        /\ written = { T * n + t : n \in 0 .. (N - 1), t \in 0 .. (T - 1) }

\* ------------------------------------------------------------------ C4
\* The proposal, the product and the draw of the last step of lane l, from the
\* values the step found.
Proposal(st) == st.s + cfg.stepsize * curand_normal(st.rs)
Ratio(st) == FMul(Pdf(st.pdf, Proposal(st)), st.inv)
Draw(st) == curand_uniform(Advance(st.rs))

\* C4: a step accepts exactly when proposalDensity * cachedInverse >= the uniform
\* draw; accepted, the sample is the proposal and the cache 1 / proposalDensity;
\* rejected, both are unchanged; the stream has advanced by two draws either way.
C4_AcceptRule ==
    kernel = "WarmupMetropolis" =>
        \A l \in Lanes :
            LET st == lane[l].last
                k  == st.n + 1
            IN  st.valid =>
                  /\ st.accepted <=> FGeq(Ratio(st), Draw(st))
                  /\ st.accepted =>
                        /\ lane[l].ps[k] = Proposal(st)
                        /\ lane[l].inv[k] = FInv(Pdf(st.pdf, Proposal(st)))
                  /\ ~st.accepted =>
                        /\ lane[l].ps[k] = st.s
                        /\ lane[l].inv[k] = st.inv
                  /\ lane[l].rs = Advance(Advance(st.rs))

C4_Witness ==
    /\ kernel = "WarmupMetropolis"
    /\ \E l \in Lanes : /\ lane[l].last.valid /\ lane[l].last.accepted
                        /\ Ratio(lane[l].last) = Draw(lane[l].last)
                        /\ Proposal(lane[l].last) # lane[l].last.s
    /\ \E l \in Lanes : lane[l].last.valid /\ ~lane[l].last.accepted

\* ------------------------------------------------------------------ C5
\* C5 (as claimed): a step whose proposal has a density >= the density of the
\* current sample always accepts, also when both densities are zero.
C5_Claim ==
    kernel = "WarmupMetropolis" =>
        \A l \in Lanes :
            LET st == lane[l].last
            IN  (st.valid /\ FGeq(Pdf(st.pdf, Proposal(st)), Pdf(st.pdf, st.s)))
                    => st.accepted

\* ------------------------------------------------------------------ C6
Loaded(l) == lane[l].pc \in {"step", "storeRand", "store", "done"}

\* C6: from the end of the load on, in every lane and for every dimension n,
\* localInvPrevPDF[n] = 1 / pdf_n(localPrevSample[n]).
C6_CacheInvariant ==
    kernel = "WarmupMetropolis" =>
        \A l \in Lanes :
            Loaded(l) =>
                \A n \in 0 .. (N - 1) :
                    lane[l].inv[n + 1] = FInv(Pdf(PdfOf(n), lane[l].ps[n + 1]))

C6_Witness ==
    /\ kernel = "WarmupMetropolis" /\ ~Homogeneous(cfg.pdfs)
    /\ cfg.pdfs[1] # cfg.pdfs[2]
    /\ \E l \in Lanes : /\ lane[l].last.valid /\ lane[l].last.accepted
                        /\ lane[l].last.n = 1
                        /\ lane[l].ps[2] # lane[l].last.s

\* ------------------------------------------------------------------ C7
\* Any step of lane l in WarmupMetropolis.
WarmupLane(l) ==
    \/ LoadRand(l) \/ CopyHomogeneous(l) \/ WarmupCopy(l)
    \/ StepHomogeneous(l) \/ WarmupGibbs(l) \/ StoreRand(l) \/ StoreSample(l)

\* C7: the k-th step of a lane (k from 0) is on dimension k mod nNucleons; a lane
\* never makes more than iterations * nNucleons steps (none when iterations <= 0),
\* has made exactly that many when it leaves the loop, and can always take its
\* next step until it is done (it never waits for another lane).
C7_SweepOrder ==
    kernel = "WarmupMetropolis" =>
        \A l \in Lanes :
            LET log == lane[l].log
                want == Sweeps(args.iterations) * N
            IN  /\ \A k \in 1 .. Len(log) : log[k] = (k - 1) % N
                /\ Len(log) <= want
                /\ lane[l].pc \in {"storeRand", "store", "done"} => Len(log) = want
                /\ lane[l].pc = "step" => Len(log) < want
                /\ lane[l].pc # "done" => ENABLED WarmupLane(l)

C7_Witness ==
    /\ WarmupDone /\ args.iterations = 2 /\ N = 2 /\ ~Homogeneous(cfg.pdfs)
    /\ \A l \in Lanes : lane[l].log = <<0, 1, 0, 1>>

\* ------------------------------------------------------------------ C8
\* C8 (as claimed): a density list whose length differs from nNucleons is
\* rejected by the build and no lane of WarmupMetropolis ever runs.
C8_Claim ==
    Len(cfg.pdfs) # N => (build # "ok" /\ kernel # "WarmupMetropolis")

\* C8 (amended): a list whose length is neither 1 nor nNucleons is rejected by
\* the build and no lane of any kernel runs; a list of length 1 is never rejected.
C8_Amended ==
    /\ (Len(cfg.pdfs) # N /\ Len(cfg.pdfs) # 1) =>
          (build # "ok" /\ kernel = "none" /\ acc = {} /\ written = {})
    /\ Len(cfg.pdfs) = 1 => build # "rejected"

C8_Witness ==
    Len(cfg.pdfs) = N + 1 /\ N >= 2 /\ build = "rejected"

\* ------------------------------------------------------------------ C9
\* C9: after RandStateInit has run for all lanes, the state of lane i is
\* curand_init(seed, i, 0), so distinct lanes hold distinct sequence numbers, and
\* lane i has written randState[i] and nothing else.
C9_Seeding ==
    (kernel = "RandStateInit" /\ Completed) =>
        /\ \A i \in 0 .. (T - 1) :
             randState[i] = [seed |-> args.seed, seq |-> i, pos |-> 0]
        /\ \A i, j \in 0 .. (T - 1) : i # j => randState[i].seq # randState[j].seq
        /\ \A k \in RandSlots \ (0 .. (T - 1)) : randState[k] = NoState
        /\ acc = { Access(l, "rand", Tid(l), "w") : l \in Lanes }

C9_Witness ==
    kernel = "RandStateInit" /\ Completed /\ T >= 2 /\ args.seed = 1 /\ cfg.blockDim = 1

\* ----------------------------------------------------------------- C10
\* C10: after any sequence of completed warm-up launches with a + b + ...
\* iterations in all, both arrays are what one launch with that many iterations
\* leaves from the arrays the first launch found; a launch with iterations <= 0
\* leaves both arrays as it found them.
C10_Composes ==
    WarmupDone =>
        /\ ArraysAre(base, total)
        /\ args.iterations <= 0 => (prevSample = snap.sample /\ randState = snap.rand)

C10_Witness ==
    /\ WarmupDone /\ args.iterations >= 1 /\ total > args.iterations
    /\ snap.sample # base.sample /\ prevSample # snap.sample

====
